---- MODULE Spec2Model ----
(***************************************************************************)
(* K MIDI DECoder (kmididec.c): a model of the decoder core.               *)
(*                                                                         *)
(* The file is a sequence of bytes held by the in-memory fd (KMEMFD); the  *)
(* parser functions are translated as operators that take the decoder     *)
(* record and return [rc, d]: the C return code and the decoder as the     *)
(* call left it (a failing call keeps the fields it had already changed).  *)
(* The public API (kmdecOpen*, kmdecDecode, kmdecSeek, kmdecClose) are the *)
(* actions.                                                                *)
(*                                                                         *)
(* memRead never returns -1 on a valid KMEMFD and returns a short count at *)
(* the end of the buffer; its callers only test for -1, so the bytes of    *)
(* the destination that were not filled keep what they held: the previous  *)
(* content where the code had written it, and an indeterminate value (g,   *)
(* drawn per API call from UninitBytes) where it had not.                  *)
(***************************************************************************)
EXTENDS Integers, Sequences, FiniteSets, TLC

(* ------------------------------------------------------------------ *)
(* Program constants                                                    *)
(* ------------------------------------------------------------------ *)
OS2MIDI == 65535
\* (uint32_t)-1: the largest tick value.  TLC's integers are 32-bit signed,
\* so the sentinel is the largest value the model can hold: the tick word of
\* the model has 31 bits where the code's has 32.  Every tick a file of the
\* model reaches is far below it, which keeps the code's comparisons.
END_OF_TRACK == 2147483647
DEFAULT_TEMPO == 500000
DEFAULT_NUMERATOR == 4
DEFAULT_DENOMINATOR == 4
CLOCK_BASE == 1000000
DECODE_SEEK == 0
DECODE_PLAY == 1
KMDEC_SEEK_SET == 0
KMDEC_SEEK_CUR == 1
KMDEC_SEEK_END == 2
KMDEC_BPS_S16 == 16
KMDEC_BPS_FLOAT == 32
\* synth.min-note-length, the clock unit in ms (openEx falls back to 10)
CLOCK_UNIT_MS == 10

Min(a, b) == IF a < b THEN a ELSE b

(* ------------------------------------------------------------------ *)
(* Memory fd                                                            *)
(* ------------------------------------------------------------------ *)
\* memOpen: the whole file is read into the buffer, offset 0
memOpen(bytes) == [buffer |-> bytes, length |-> Len(bytes), offset |-> 0]

\* memRead: [rc, data, mfd]; data are the rc bytes copied to the caller
memRead(mfd, n) ==
    IF n = 0 \/ mfd.length = mfd.offset
    THEN [rc |-> 0, data |-> <<>>, mfd |-> mfd]
    ELSE LET len == Min(n, mfd.length - mfd.offset) IN
         [rc |-> len,
          data |-> SubSeq(mfd.buffer, mfd.offset + 1, mfd.offset + len),
          mfd |-> [mfd EXCEPT !.offset = @ + len]]

\* memSeek: [rc, mfd]; origin is one of SEEK_SET/SEEK_CUR/SEEK_END (0, 1, 2)
memSeek(mfd, offset, origin) ==
    LET pos == CASE origin = 0 -> offset
                 [] origin = 1 -> mfd.offset + offset
                 [] OTHER      -> mfd.length + offset
    IN IF pos < 0 \/ pos > mfd.length
       THEN [rc |-> -1, mfd |-> mfd]
       ELSE [rc |-> pos, mfd |-> [mfd EXCEPT !.offset = pos]]

memTell(mfd) == mfd.offset


(* ------------------------------------------------------------------ *)
(* Synthesizer: the calls it receives since its last system reset       *)
(* ------------------------------------------------------------------ *)
synthCall(d, call) == [d EXCEPT !.synth = Append(@, call)]

\* the switch( event ) that passes a MIDI event to fluidsynth
synthEvent(d, event, channel, d0, d1) ==
    CASE event = 128 -> synthCall(d, <<"noteoff", channel, d0>>)
      [] event = 144 -> synthCall(d, <<"noteon", channel, d0, d1>>)
      [] event = 176 -> synthCall(d, <<"cc", channel, d0, d1>>)
      [] event = 192 -> synthCall(d, <<"program_change", channel, d0>>)
      [] event = 208 -> synthCall(d, <<"channel_pressure", channel, d0>>)
      [] event = 224 -> synthCall(d, <<"pitch_bend", channel, d1 * 128 + d0>>)
      [] OTHER       -> d

\* The trace is the model's record of what the scheduler did since the last
\* system reset, in order: <<"event", track, nextTick, tick>> for an event
\* passed to the synthesizer (nextTick of its track and tick of the decoder
\* at that moment), <<"tempo", track, nextTick, tick, tempo>> for a set-tempo
\* meta event, <<"step", tick, delta, tempo>> for a clock step of delta ticks
\* from tick at the tempo in force.
\* a / b of C ints.  A division by zero is undefined: a build either
\* raises a signal there (d.divZero = "trap", the caller records the fault
\* "trap") or goes on with the quotient 0 (d.divZero = "zero").
divide(a, b) == IF b = 0 THEN 0 ELSE a \div b

\* what a division by zero does in the build
DivZero == {"trap", "zero"}

traceEvent(d, i, event) ==
    IF event \in {128, 144, 176, 192, 208, 224}
    THEN [d EXCEPT !.trace = Append(@, <<"event", i, d.tracks[i].nextTick, d.tick>>)]
    ELSE d

traceTempo(d, i, tempo) ==
    [d EXCEPT !.trace = Append(@, <<"tempo", i, d.tracks[i].nextTick, d.tick, tempo>>)]

traceStep(d, delta) ==
    [d EXCEPT !.trace = Append(@, <<"step", d.tick, delta, d.tempo>>)]

\* the low byte of 1 << n, as stored in the uint8_t denominator
shiftByte(n) == IF n < 8 THEN 2 ^ n ELSE 0


(* ------------------------------------------------------------------ *)
(* Variable length quantity and delta time                              *)
(* ------------------------------------------------------------------ *)
\* Each parser function is a chain of steps: a step takes, as arguments,
\* the decoder and the result of the call the function has just made, and
\* hands on to the step after it.  The steps of a function are written
\* last step first.

RECURSIVE readVarQLoop(_, _, _, _, _)
\* the do/while of readVarQ; b is what the byte variable holds before the read
readVarQLoop(d, i, count, vq, b) ==
    IF count >= 4
    THEN [rc |-> -1, d |-> d, val |-> 0]
    ELSE LET r   == memRead(d.mfd, 1)
             b1  == IF r.rc = 0 THEN b ELSE r.data[1]
         IN IF b1 >= 128
            THEN readVarQLoop([d EXCEPT !.mfd = r.mfd, !.tracks[i].offset = @ + 1],
                              i, count + 1, vq * 128 + (b1 % 128), b1)
            ELSE [rc |-> 0,
                  d |-> [d EXCEPT !.mfd = r.mfd, !.tracks[i].offset = @ + 1],
                  val |-> vq * 128 + (b1 % 128)]

\* a faulty readVarQ that counts one byte too many: it rejects the
\* encodings of four bytes.  C16 must not hold of it.
readVarQThree(d, i, g) == readVarQLoop(d, i, 1, 0, g)

\* readVarQ: [rc, d, val]
readVarQ(d, i, g) == readVarQLoop(d, i, 0, 0, g)

\* decodeDelta, after readVarQ returned r
\* track->nextTick += delta on a uint32_t: the sum wraps at the size of the
\* word.  The word of the model ends at END_OF_TRACK, as the code's does.
addTick(t, delta) ==
    IF t > END_OF_TRACK - delta
    THEN t - (END_OF_TRACK - delta) - 1
    ELSE t + delta

decodeDeltaAdd(i, r) ==
    IF r.rc = -1
    THEN [rc |-> -1, d |-> r.d]
    ELSE [rc |-> 0,
          d |-> [r.d EXCEPT !.tracks[i].nextTick = addTick(@, r.val)]]

\* decodeDelta: [rc, d]
decodeDelta(d, i, g) ==
    IF d.tracks[i].offset >= d.tracks[i].length
    THEN [rc |-> 0, d |-> [d EXCEPT !.tracks[i].nextTick = END_OF_TRACK]]
    ELSE decodeDeltaAdd(i, readVarQ(d, i, g))

(* ------------------------------------------------------------------ *)
(* SMF events                                                           *)
(* ------------------------------------------------------------------ *)
\* decodeMetaEvent, the switch( type ) after the read r2 of len bytes of data
decodeMetaType(d, i, g, type, len, r2) ==
    LET data(k) == IF k < r2.rc THEN r2.data[k + 1] ELSE g
        d2      == [d EXCEPT !.mfd = r2.mfd, !.tracks[i].offset = @ + len]
    IN
    CASE type = 0   -> [rc |-> IF len # 2 THEN -1 ELSE 0, d |-> d2]
      [] type = 32  -> [rc |-> IF len # 1 THEN -1 ELSE 0, d |-> d2]
      [] type = 47  -> [rc |-> IF len # 0
                                  \/ d2.tracks[i].offset # d2.tracks[i].length
                               THEN -1 ELSE 0,
                        d |-> d2]
      [] type = 81  -> IF len # 3 THEN [rc |-> -1, d |-> d2]
                       ELSE [rc |-> 0,
                             d |-> [traceTempo(d2, i, data(0) * 65536
                                                        + data(1) * 256 + data(2))
                                      EXCEPT !.tempo =
                                      data(0) * 65536 + data(1) * 256 + data(2)]]
      [] type = 84  -> [rc |-> IF len # 5 THEN -1 ELSE 0, d |-> d2]
      [] type = 88  -> IF len # 4 THEN [rc |-> -1, d |-> d2]
                       ELSE [rc |-> 0,
                             d |-> [d2 EXCEPT !.numerator = data(0),
                                              !.denominator = shiftByte(data(1))]]
      [] type = 89  -> [rc |-> IF len # 2 THEN -1 ELSE 0, d |-> d2]
      [] OTHER      -> [rc |-> 0, d |-> d2]

\* decodeMetaEvent, after readVarQ returned the length rq
decodeMetaData(i, g, type, rq) ==
    IF rq.rc = -1
    THEN [rc |-> -1, d |-> rq.d]
    ELSE decodeMetaType(rq.d, i, g, type, rq.val, memRead(rq.d.mfd, rq.val))

\* decodeMetaEvent, after the read r1 of the type
decodeMetaLength(d, i, g, r1) ==
    decodeMetaData(i, g, IF r1.rc = 0 THEN g ELSE r1.data[1],
                   readVarQ([d EXCEPT !.mfd = r1.mfd, !.tracks[i].offset = @ + 1],
                            i, g))

\* decodeMetaEvent: [rc, d]
decodeMetaEvent(d, i, g) ==
    IF d.tracks[i].offset >= d.tracks[i].length
    THEN [rc |-> 0, d |-> d]
    ELSE decodeMetaLength(d, i, g, memRead(d.mfd, 1))

\* the length of the data of a status that is no SysEx and no meta event
eventDataLen(status) ==
    LET event == status - (status % 16) IN
    IF status = 243 \/ event = 192 \/ event = 208 THEN 1
    ELSE IF status = 241 \/ (status >= 244 /\ status <= 246)
            \/ (status >= 248 /\ status <= 254) THEN 0
    ELSE 2

\* decodeEvent, after the read r2 of len bytes of data: the SysEx check, the
\* event passed to the synthesizer, the next delta time.
\* data[ k ] is what memRead copied, else indeterminate (data[ -1 ] too).
decodeEventSend(d, i, g, status, len, r2) ==
    LET data(k) == IF 0 <= k /\ k < r2.rc THEN r2.data[k + 1] ELSE g
        dD      == [d EXCEPT !.mfd = r2.mfd, !.tracks[i].offset = @ + len]
    IN
    IF status = 240 /\ data(len - 1) # 247
    THEN [rc |-> -1, d |-> dD]
    ELSE decodeDelta(synthEvent(traceEvent(dD, i, status - (status % 16)),
                                status - (status % 16), status % 16,
                                data(0) % 128, data(1) % 128),
                     i, g)

\* decodeEvent, after the length of the data is known (lr: [rc, d, val])
decodeEventData(i, g, status, lr) ==
    IF lr.rc = -1
    THEN [rc |-> -1, d |-> lr.d]
    ELSE decodeEventSend(lr.d, i, g, status, lr.val, memRead(lr.d.mfd, lr.val))

\* the result of decodeMetaEvent as a length: a meta event leaves len = 0
metaLength(m) == [rc |-> m.rc, d |-> m.d, val |-> 0]

\* decodeEvent, once the status is known: the length of the data
decodeEventLength(d, i, g, status) ==
    IF status < 128
    THEN [rc |-> -1, d |-> d]
    ELSE
    LET dC == IF status < 240 THEN [d EXCEPT !.tracks[i].status = status]
              ELSE d
    IN decodeEventData(i, g, status,
          IF status = 240 \/ status = 247
          THEN readVarQ(dC, i, g)
          ELSE IF status = 255
          THEN metaLength(decodeMetaEvent(dC, i, g))
          ELSE [rc |-> 0, d |-> dC, val |-> eventDataLen(status)])

\* a faulty running status: the omitted status is taken to be note off,
\* whatever the last status of the track was.  C15 must not hold of it.
decodeEventStatusNoteOff(d, i, g, r1) ==
    LET byte == IF r1.rc = 0 THEN g ELSE r1.data[1]
        dA   == [d EXCEPT !.mfd = r1.mfd, !.tracks[i].offset = @ + 1]
        s1   == memSeek(r1.mfd, -1, 1)
    IN
    decodeEventLength(IF byte < 128
                      THEN [dA EXCEPT !.mfd = s1.mfd, !.tracks[i].offset = @ - 1]
                      ELSE dA,
                      i, g,
                      IF byte < 128 THEN 128 ELSE byte)

\* decodeEvent, after the read r1 of the status byte: running status
decodeEventStatus(d, i, g, r1) ==
    LET byte == IF r1.rc = 0 THEN g ELSE r1.data[1]
        dA   == [d EXCEPT !.mfd = r1.mfd, !.tracks[i].offset = @ + 1]
        s1   == memSeek(r1.mfd, -1, 1)
    IN
    IF byte < 128 /\ s1.rc = -1
    THEN [rc |-> -1, d |-> dA]
    ELSE decodeEventLength(IF byte < 128
                           THEN [dA EXCEPT !.mfd = s1.mfd,
                                           !.tracks[i].offset = @ - 1]
                           ELSE dA,
                           i, g,
                           IF byte < 128 THEN d.tracks[i].status ELSE byte)

\* decodeEvent, after the seek s0 to the position of the track
decodeEventRead(d, i, g, s0) ==
    IF s0.rc = -1
    THEN [rc |-> -1, d |-> d]
    ELSE decodeEventStatus(d, i, g, memRead(s0.mfd, 1))

\* decodeEvent: [rc, d]
decodeEvent(d, i, g) ==
    IF d.tracks[i].offset >= d.tracks[i].length
    THEN [rc |-> 0, d |-> d]
    ELSE decodeEventRead(d, i, g,
             memSeek(d.mfd, d.tracks[i].start + d.tracks[i].offset, 0))

(* ------------------------------------------------------------------ *)
(* OS/2 real-time MIDI events                                           *)
(* ------------------------------------------------------------------ *)
RECURSIVE os2SysExRead(_, _, _, _)
\* the for loop that reads up to 9 bytes into sysex[]: [d, sysex, found]
os2SysExRead(d, i, sysex, g) ==
    IF Len(sysex) = 9
    THEN [d |-> d, sysex |-> sysex, found |-> FALSE]
    ELSE LET r  == memRead(d.mfd, 1)
             b  == IF r.rc = 0 THEN g ELSE r.data[1]
         IN IF b = 247
            THEN [d |-> [d EXCEPT !.mfd = r.mfd, !.tracks[i].offset = @ + 1],
                  sysex |-> Append(sysex, b), found |-> TRUE]
            ELSE os2SysExRead([d EXCEPT !.mfd = r.mfd,
                                        !.tracks[i].offset = @ + 1],
                              i, Append(sysex, b), g)

RECURSIVE os2SysExDrain(_, _, _)
\* the do/while that skips to F7; s0 is what sysex[ 0 ] holds before the read.
\* At the end of the buffer memRead returns 0 and sysex[ 0 ] keeps a byte
\* that is not F7: the loop never ends.
os2SysExDrain(d, i, s0) ==
    LET r  == memRead(d.mfd, 1)
        b  == IF r.rc = 0 THEN s0 ELSE r.data[1]
        d1 == [d EXCEPT !.mfd = r.mfd, !.tracks[i].offset = @ + 1]
    IN IF b = 247 THEN [rc |-> 0, d |-> d1]
       ELSE IF r.rc = 0 THEN [rc |-> -1, d |-> [d1 EXCEPT !.fault = "hang"]]
       ELSE os2SysExDrain(d1, i, b)

\* decodeOS2SysExEvent, after the for loop returned rd
os2SysExMessage(i, g, rd) ==
    LET sysex(k) == IF k < Len(rd.sysex) THEN rd.sysex[k + 1] ELSE g
        type     == sysex(3) % 128
        bpm10    == (sysex(6) % 128) * 128 + (sysex(5) % 128)
    IN
    IF ~rd.found
    THEN os2SysExDrain(rd.d, i, rd.sysex[1])
    ELSE IF sysex(0) = 0 /\ sysex(1) = 0 /\ sysex(2) = 58
    THEN CASE type = 1 ->
                [rc |-> 0,
                 d |-> [rd.d EXCEPT !.tracks[i].nextTick =
                          addTick(@, (sysex(5) % 128) * 128
                                       + (sysex(4) % 128))]]
           [] type >= 7 ->
                [rc |-> 0, d |-> [rd.d EXCEPT !.tracks[i].nextTick =
                                          addTick(@, type)]]
           [] type = 3 /\ sysex(4) = 2 ->
                IF bpm10 \div 10 = 0 /\ rd.d.divZero = "trap"
                THEN [rc |-> -1, d |-> [rd.d EXCEPT !.fault = "trap"]]
                ELSE [rc |-> 0,
                      d |-> [traceTempo(rd.d, i,
                                        divide(60 * 1000000, bpm10 \div 10))
                               EXCEPT !.tempo =
                                 divide(60 * 1000000, bpm10 \div 10)]]
           [] OTHER -> [rc |-> 0, d |-> rd.d]
    ELSE [rc |-> 0, d |-> rd.d]

\* decodeOS2SysExEvent: [rc, d]
decodeOS2SysExEvent(d, i, g) == os2SysExMessage(i, g, os2SysExRead(d, i, <<>>, g))

\* the length of the data of a status in the OS/2 format
os2DataLen(event) ==
    IF event \in {128, 144, 160, 176, 224} THEN 2
    ELSE IF event \in {192, 208} THEN 1
    ELSE 0

\* decodeOS2Event, after the read r2 of len bytes of data
decodeOS2Send(d, i, g, status, len, r2) ==
    LET data(k) == IF k < r2.rc THEN r2.data[k + 1] ELSE g
        dD      == [d EXCEPT !.mfd = r2.mfd, !.tracks[i].offset = @ + len]
    IN
    IF status - (status % 16) = 240
    THEN IF status = 248
         THEN [rc |-> 0, d |-> [dD EXCEPT !.tracks[i].nextTick = addTick(@, 1)]]
         ELSE decodeOS2SysExEvent(dD, i, g)
    ELSE [rc |-> 0,
          d |-> synthEvent(traceEvent(dD, i, status - (status % 16)),
                           status - (status % 16), status % 16,
                           data(0) % 128, data(1) % 128)]

\* decodeOS2Event, once the status is known
decodeOS2Data(d, i, g, status) ==
    IF status < 128
    THEN [rc |-> -1, d |-> d]
    ELSE
    LET dC  == IF status < 240 THEN [d EXCEPT !.tracks[i].status = status]
               ELSE d
        len == os2DataLen(status - (status % 16))
    IN decodeOS2Send(dC, i, g, status, len, memRead(dC.mfd, len))

\* decodeOS2Event, after the read r1 of the status byte: running status
decodeOS2Status(d, i, g, r1) ==
    LET byte == IF r1.rc = 0 THEN g ELSE r1.data[1]
        dA   == [d EXCEPT !.mfd = r1.mfd, !.tracks[i].offset = @ + 1]
        s1   == memSeek(r1.mfd, -1, 1)
    IN
    IF byte < 128 /\ s1.rc = -1
    THEN [rc |-> -1, d |-> dA]
    ELSE decodeOS2Data(IF byte < 128
                       THEN [dA EXCEPT !.mfd = s1.mfd,
                                       !.tracks[i].offset = @ - 1]
                       ELSE dA,
                       i, g,
                       IF byte < 128 THEN d.tracks[i].status ELSE byte)

\* decodeOS2Event: [rc, d]
decodeOS2Event(d, i, g) ==
    IF d.tracks[i].offset >= d.tracks[i].length
    THEN [rc |-> 0, d |-> [d EXCEPT !.tracks[i].nextTick = END_OF_TRACK]]
    ELSE decodeOS2Status(d, i, g, memRead(d.mfd, 1))

(* ------------------------------------------------------------------ *)
(* Scheduler                                                            *)
(* ------------------------------------------------------------------ *)
RECURSIVE decodeTracks(_, _, _, _)
\* the for loop of decode(), after the event decoder of track i returned r
decodeTracksNext(i, nextTick, g, r) ==
    IF r.rc = -1
    THEN [rc |-> -1, d |-> r.d, nextTick |-> nextTick]
    ELSE decodeTracks(r.d, i + 1, Min(nextTick, r.d.tracks[i].nextTick), g)

\* the for loop of decode() from track i on: [rc, d, nextTick]
decodeTracks(d, i, nextTick, g) ==
    IF i > d.header.tracks
    THEN [rc |-> 0, d |-> d, nextTick |-> nextTick]
    ELSE decodeTracksNext(i, nextTick, g,
             IF d.tracks[i].nextTick <= d.tick
             THEN IF d.header.format = OS2MIDI
                  THEN decodeOS2Event(d, i, g)
                  ELSE decodeEvent(d, i, g)
             ELSE [rc |-> 0, d |-> d])

\* what decode() does in play mode once delta is known: render into a new
\* staging buffer
playSamples(d, delta, ticksPerSec) ==
    LET samples == divide(delta * d.sampleRate, ticksPerSec)
    IN [synthCall(d, <<"write", samples>>)
          EXCEPT !.bufLen = samples * d.sampleSize, !.bufPos = 0,
                 !.bufSize = samples * d.sampleSize,
                 !.bufId = Len(d.synth) + 1]

\* the clock step of decode(): tick and clock after a step of delta ticks
advance(d, delta, ticksPerSec) ==
    [traceStep(d, delta) EXCEPT !.tick = @ + delta,
              !.clock = @ + divide(CLOCK_BASE * delta, ticksPerSec)]

\* a faulty first value of delta: the ticks of two clock units.  The
\* amended C25 must not hold of it.
clockUnitTicksTwice(d, ticksPerSec) ==
    LET delta == (2 * ticksPerSec * d.clockUnit) \div CLOCK_BASE
    IN IF delta = 0 THEN 1 ELSE delta

\* the first value of delta: ticks in one clock unit, 1 at least
clockUnitTicks(d, ticksPerSec) ==
    LET delta == (ticksPerSec * d.clockUnit) \div CLOCK_BASE
    IN IF delta = 0 THEN 1 ELSE delta

\* a faulty step: a step that is cut at the next event goes one tick too
\* far.  C21 must not hold of it.
stepTicksOneMore(d, nextTick, delta) ==
    IF d.tick + delta > nextTick THEN nextTick - d.tick + 1 ELSE delta

\* a faulty step: it does not stop at the next event.  C13 must not hold of
\* it.
stepTicksPast(d, nextTick, delta) == delta

\* delta of decode(): no further than the next event
stepTicks(d, nextTick, delta) ==
    IF d.tick + delta > nextTick THEN nextTick - d.tick ELSE delta

\* a faulty step: it renders in seek mode too.  C28 must not hold of it.
decodeStepRenders(d, mode, delta, ticksPerSec) ==
    [rc |-> 0,
     d |-> advance(playSamples(d, delta, ticksPerSec), delta, ticksPerSec)]

\* decode(), the step of delta ticks
decodeStep(d, mode, delta, ticksPerSec) ==
    [rc |-> 0,
     d |-> advance(IF mode = DECODE_PLAY
                   THEN playSamples(d, delta, ticksPerSec)
                   ELSE d,
                   delta, ticksPerSec)]

\* decode(), the body of if( nextTick > dec->tick ).  With ticksPerSec 0
\* it divides by zero.
decodeAdvance(d, mode, nextTick, ticksPerSec) ==
    IF ticksPerSec = 0 /\ d.divZero = "trap"
    THEN [rc |-> -1, d |-> [d EXCEPT !.fault = "trap"]]
    ELSE decodeStep(d, mode,
                    stepTicks(d, nextTick, clockUnitTicks(d, ticksPerSec)),
                    ticksPerSec)

\* a faulty decode(): it converts every tick with the default tempo.  C19
\* must not hold of it.
decodeFinishDefaultTempo(mode, r) ==
    IF r.rc = -1 THEN [rc |-> -1, d |-> r.d]
    ELSE IF r.nextTick = END_OF_TRACK THEN [rc |-> -1, d |-> r.d]
    ELSE IF r.nextTick > r.d.tick
    THEN decodeAdvance(r.d, mode, r.nextTick,
                       (r.d.header.division * CLOCK_BASE) \div DEFAULT_TEMPO)
    ELSE [rc |-> 0, d |-> r.d]

\* a faulty decode(): at the end of every track it still steps the clock.
\* C7 must not hold of it.
decodeFinishDrift(mode, r) ==
    IF r.rc = -1 THEN [rc |-> -1, d |-> r.d]
    ELSE IF r.nextTick = END_OF_TRACK
    THEN [rc |-> -1, d |-> advance(r.d, 1, r.d.header.division)]
    ELSE IF r.nextTick > r.d.tick
    THEN IF r.d.tempo = 0
         THEN [rc |-> -1, d |-> [r.d EXCEPT !.fault = "trap"]]
         ELSE decodeAdvance(r.d, mode, r.nextTick,
                            (r.d.header.division * CLOCK_BASE) \div r.d.tempo)
    ELSE [rc |-> 0, d |-> r.d]

\* decode(), after the for loop returned r.  With tempo 0 it divides by
\* zero.
decodeFinish(mode, r) ==
    IF r.rc = -1 THEN [rc |-> -1, d |-> r.d]
    ELSE IF r.nextTick = END_OF_TRACK THEN [rc |-> -1, d |-> r.d]
    ELSE IF r.nextTick > r.d.tick
    THEN IF r.d.tempo = 0 /\ r.d.divZero = "trap"
         THEN [rc |-> -1, d |-> [r.d EXCEPT !.fault = "trap"]]
         ELSE decodeAdvance(r.d, mode, r.nextTick,
                            divide(r.d.header.division * CLOCK_BASE, r.d.tempo))
    ELSE [rc |-> 0, d |-> r.d]

\* decode: [rc, d]
decode(d, mode, g) == decodeFinish(mode, decodeTracks(d, 1, END_OF_TRACK, g))

(* ------------------------------------------------------------------ *)
(* Header and track information                                         *)
(* ------------------------------------------------------------------ *)
MThd6 == <<77, 84, 104, 100, 0, 0, 0, 6>>
MTrk == <<77, 84, 114, 107>>
OS2Prefix == <<240, 0, 0, 58, 3, 1, 24>>

\* a destination array after memRead copied `data` to its index `at` on
fill(dest, at, data) ==
    [k \in 1..Len(dest) |->
        IF k > at /\ k <= at + Len(data) THEN data[k - at] ELSE dest[k]]

ntohs(data, at) == data[at + 1] * 256 + data[at + 2]
ntohl(data, at) ==
    ((data[at + 1] * 256 + data[at + 2]) * 256 + data[at + 3]) * 256 + data[at + 4]

\* calloc( 1, sizeof( KMTRK )) with start and length set
newTrack(start, length) ==
    [start |-> start, length |-> length, offset |-> 0, nextTick |-> 0, status |-> 0]

\* the division of the OS/2 Timing Generation Control message
os2Division(pp) ==
    IF pp >= 64 THEN 24 \div (((pp % 64) + 1) * 3) ELSE 24 * (pp + 1)

\* the fail: label of initMidiInfo
initFail(d) == [rc |-> -1, d |-> [d EXCEPT !.tracks = <<>>]]

RECURSIVE initTracks(_, _, _, _)
\* the for loop of initMidiInfo, after the seek sk to the end of chunk i
initTrackSeek(d, i, data, g, sk) ==
    IF sk.rc = -1
    THEN initFail(d)
    ELSE initTracks([d EXCEPT !.mfd = sk.mfd], i + 1, data, g)

\* the for loop of initMidiInfo, after decodeDelta returned rd for track i
initTrackDelta(i, data, g, rd) ==
    IF rd.rc = -1
    THEN initFail(rd.d)
    ELSE initTrackSeek(rd.d, i, data, g,
             memSeek(rd.d.mfd,
                     rd.d.tracks[i].start + rd.d.tracks[i].length, 0))

\* the for loop of initMidiInfo, after the read r8 of the chunk header;
\* data is the local array, which keeps its bytes where a read falls short
initTrackChunk(d, i, data, g, r8) ==
    IF SubSeq(fill(data, 0, r8.data), 1, 4) # MTrk
    THEN initFail([d EXCEPT !.mfd = r8.mfd])
    ELSE initTrackDelta(i, fill(data, 0, r8.data), g,
             decodeDelta([d EXCEPT !.mfd = r8.mfd,
                                   !.tracks = Append(@,
                                       newTrack(memTell(r8.mfd),
                                                ntohl(fill(data, 0, r8.data), 4)))],
                         i, g))

\* the for loop of initMidiInfo over the track chunks from chunk i on: [rc, d]
initTracks(d, i, data, g) ==
    IF i > d.header.tracks
    THEN [rc |-> 0, d |-> d]
    ELSE initTrackChunk(d, i, data, g, memRead(d.mfd, 8))

\* initMidiInfo, the header of a standard MIDI file in data
initSMFHeader(d, data, g) ==
    LET hdr == [format |-> ntohs(data, 8), tracks |-> ntohs(data, 10),
                division |-> ntohs(data, 12)]
    IN
    IF SubSeq(data, 1, 8) # MThd6
    THEN [rc |-> -1, d |-> d]
    ELSE IF hdr.format >= 2 \/ hdr.division >= 32768
    THEN [rc |-> -1, d |-> [d EXCEPT !.header = hdr]]
    ELSE initTracks([d EXCEPT !.header = hdr], 1, data, g)

\* initMidiInfo, the OS/2 real-time MIDI data: one track from start to the
\* end of the file (e: the seek to the end)
initOS2(d, division, start, e) ==
    LET hdr == [format |-> OS2MIDI, tracks |-> 1, division |-> division]
        b   == memSeek(e.mfd, start, 0)
    IN IF division = 0
       THEN [rc |-> -1, d |-> [d EXCEPT !.header = hdr]]
       ELSE IF e.rc = -1 \/ b.rc = -1
       THEN [rc |-> -1, d |-> [d EXCEPT !.mfd = b.mfd, !.header = hdr]]
       ELSE [rc |-> 0,
             d |-> [d EXCEPT !.mfd = b.mfd, !.header = hdr,
                             !.tracks = <<newTrack(start, memTell(e.mfd) - start)>>]]

\* initMidiInfo, after the read r4 of the last four bytes of the header
initSMF(d, data0, g, r4) ==
    initSMFHeader([d EXCEPT !.mfd = r4.mfd], fill(data0, 10, r4.data), g)

\* initMidiInfo, after the read r10 of the first ten bytes into data[ 14 ]
initHeader(d, data0, g, r10) ==
    IF SubSeq(data0, 1, 7) = OS2Prefix /\ data0[10] = 247
    THEN initOS2([d EXCEPT !.mfd = r10.mfd], os2Division(data0[8] % 128),
                 memTell(r10.mfd), memSeek(r10.mfd, 0, 2))
    ELSE initSMF(d, data0, g, memRead(r10.mfd, 4))

\* initMidiInfo: [rc, d]
initMidiInfo(d, g) ==
    initHeader(d, fill([k \in 1..14 |-> g], 0, memRead(d.mfd, 10).data), g,
               memRead(d.mfd, 10))

(* ------------------------------------------------------------------ *)
(* Reset                                                                *)
(* ------------------------------------------------------------------ *)
RECURSIVE resetTracks(_, _, _)
\* the for loop of reset(), after decodeDelta returned rd for track i
resetTrackStatus(i, g, rd) ==
    IF rd.rc = -1
    THEN [rc |-> -1, d |-> rd.d]
    ELSE resetTracks([rd.d EXCEPT !.tracks[i].status = 0], i + 1, g)

\* the for loop of reset(), after the seek sk to the start of track i
resetTrackDelta(d, i, g, sk) ==
    IF sk.rc = -1
    THEN [rc |-> -1, d |-> d]
    ELSE resetTrackStatus(i, g,
             IF d.header.format # OS2MIDI
             THEN decodeDelta([d EXCEPT !.mfd = sk.mfd], i, g)
             ELSE [rc |-> 0, d |-> [d EXCEPT !.mfd = sk.mfd]])

\* the for loop of reset() from track i on: [rc, d]
resetTracks(d, i, g) ==
    IF i > d.header.tracks
    THEN [rc |-> 0, d |-> d]
    ELSE resetTrackDelta([d EXCEPT !.tracks[i].offset = 0,
                                   !.tracks[i].nextTick = 0],
                         i, g, memSeek(d.mfd, d.tracks[i].start, 0))

\* what reset() sets after its loop over the tracks
resetValues(d) ==
    [d EXCEPT !.synth = <<>>, !.trace = <<>>,
              !.tempo = DEFAULT_TEMPO,
              !.numerator = DEFAULT_NUMERATOR,
              !.denominator = DEFAULT_DENOMINATOR,
              !.tick = 0, !.clock = 0,
              !.bufLen = 0, !.bufPos = 0]

\* reset(), after the for loop returned r
resetFinish(r) ==
    IF r.rc = -1 THEN r ELSE [rc |-> 0, d |-> resetValues(r.d)]

\* reset: [rc, d]
reset(d, g) == resetFinish(resetTracks(d, 1, g))

(* ------------------------------------------------------------------ *)
(* Open and close                                                       *)
(* ------------------------------------------------------------------ *)
\* calloc( 1, sizeof( KMDEC )) with sf, closeFd and the memory fd set.
\* synth, trace, bufSize, bufId and fault are the model's view of the
\* synthesizer (the calls it got since its last system reset), of the
\* scheduler (see traceEvent), of the staging buffer
\* (its allocated size, and the index in synth of the write that filled it)
\* and of a call that cannot return (a signal at a division by zero:
\* "trap"; a loop that cannot end: "hang").  divZero is what the build does
\* at a division by zero.
newDecoder(bytes, closeFd) ==
    [mfd |-> memOpen(bytes), closeFd |-> closeFd,
     header |-> [format |-> 0, tracks |-> 0, division |-> 0],
     tracks |-> <<>>, sf |-> -1, synth |-> <<>>, trace |-> <<>>,
     clockUnit |-> 0, sampleRate |-> 0, sampleSize |-> 0,
     tempo |-> 0, numerator |-> 0, denominator |-> 0,
     tick |-> 0, clock |-> 0, duration |-> 0,
     bufLen |-> 0, bufPos |-> 0, bufSize |-> 0, bufId |-> 0,
     fault |-> "none", divZero |-> "trap"]

\* kmdecClose: the resources still held afterwards
kmdecClose(d, live) ==
    live \ ({"buffer"}
              \cup (IF d.sf # -1 THEN {"sf"} ELSE {})
              \cup {"synth", "settings", "tracks", "mfd"}
              \cup (IF d.closeFd THEN {"fd"} ELSE {})
              \cup {"dec"})

\* the fail: label of openEx
openFail(d, live, scanError) ==
    [dec |-> d, ok |-> FALSE, live |-> kmdecClose(d, live),
     scanError |-> scanError]

\* what openEx holds once the decoder, the memory fd and the tracks exist,
\* and once the synthesizer exists too
Parsed == {"fd", "dec", "mfd", "tracks"}
Opened == Parsed \cup {"settings", "synth", "sf"}

\* the -1 of decode() came from an event decoder, not from the end of
\* every track
scanFailed(d) == \E i \in 1..Len(d.tracks) : d.tracks[i].nextTick # END_OF_TRACK

RECURSIVE preScan(_, _)
\* while( decode( dec, DECODE_SEEK ) != -1 ), after decode returned r.
\* A successful call that changes nothing repeats forever.
preScanNext(d, g, r) ==
    IF r.d.fault # "none" THEN [d |-> r.d, error |-> FALSE]
    ELSE IF r.rc = -1 THEN [d |-> r.d, error |-> scanFailed(r.d)]
    ELSE IF r.d = d THEN [d |-> [d EXCEPT !.fault = "hang"], error |-> FALSE]
    ELSE preScan(r.d, g)

\* the loop that calculates the total samples: [d, error]
preScan(d, g) == preScanNext(d, g, decode(d, DECODE_SEEK, g))

\* openEx, after reset returned rr
openReset(error, rr) ==
    IF rr.rc = -1
    THEN openFail(rr.d, Opened, error)
    ELSE [dec |-> rr.d, ok |-> TRUE, live |-> Opened, scanError |-> error]

\* openEx, after the loop that calculates the total samples returned ps
openDuration(g, ps) ==
    IF ps.d.fault # "none"
    THEN [dec |-> ps.d, ok |-> FALSE, live |-> Opened, scanError |-> FALSE]
    ELSE openReset(ps.error, reset([ps.d EXCEPT !.duration = ps.d.clock], g))

\* openEx, the settings of the synthesizer and of the decoder
openSettings(d, pkai) ==
    [d EXCEPT !.clockUnit = CLOCK_UNIT_MS * (CLOCK_BASE \div 1000),
              !.sampleRate = pkai.sampleRate,
              !.sampleSize = pkai.channels * (pkai.bps \div 8),
              !.tempo = DEFAULT_TEMPO,
              !.numerator = DEFAULT_NUMERATOR,
              !.denominator = DEFAULT_DENOMINATOR]

\* openEx, after initMidiInfo returned ri
openSynth(sf2ok, pkai, g, ri) ==
    IF ri.rc = -1 THEN openFail(ri.d, {"fd", "dec", "mfd"}, FALSE)
    ELSE IF ~sf2ok
    THEN openFail(ri.d, Parsed \cup {"settings", "synth"}, FALSE)
    ELSE IF pkai.bps # KMDEC_BPS_S16 /\ pkai.bps # KMDEC_BPS_FLOAT
    THEN openFail([ri.d EXCEPT !.sf = 1], Opened, FALSE)
    ELSE openDuration(g, preScan(openSettings([ri.d EXCEPT !.sf = 1], pkai), g))

\* what the environment refuses during open: nothing, the handle
\* (io->open returns -1), the memory of the decoder (calloc returns NULL),
\* or the memory fd (memOpen returns NULL: no memory, or io->read failed)
Refusals == {"none", "fd", "dec", "mfd"}

\* open returned NULL before a decoder existed: dec keeps the closeFd of
\* the call and nothing else
noDecoder(closeFd, live) ==
    [dec |-> newDecoder(<<>>, closeFd), ok |-> FALSE, live |-> live,
     scanError |-> FALSE]

\* openEx: [dec, ok, live, scanError]; ok is FALSE when it returns NULL
openEx(bytes, sf2ok, pkai, closeFd, refused, build, g) ==
    IF refused = "dec" THEN noDecoder(closeFd, {"fd"})
    ELSE IF refused = "mfd"
    THEN openFail(newDecoder(<<>>, closeFd), {"fd", "dec"}, FALSE)
    ELSE openSynth(sf2ok, pkai, g,
                   initMidiInfo([newDecoder(bytes, closeFd)
                                   EXCEPT !.divZero = build], g))

\* kmdecOpenEx (closeFd: it opens the handle) and kmdecOpenFdEx (~closeFd:
\* the handle is the caller's)
kmdecOpen(bytes, sf2ok, pkai, closeFd, refused, build, g) ==
    IF closeFd /\ refused = "fd" THEN noDecoder(closeFd, {})
    ELSE openEx(bytes, sf2ok, pkai, closeFd, refused, build, g)

(* ------------------------------------------------------------------ *)
(* Decode, position, seek                                               *)
(* ------------------------------------------------------------------ *)
\* the bytes handed to the caller, as runs <<bufId, from, len>> of staging
\* buffers; a run that continues the last one is joined to it
addRun(out, id, from, len) ==
    IF len = 0 THEN out
    ELSE IF out # <<>> /\ out[Len(out)][1] = id
            /\ out[Len(out)][2] + out[Len(out)][3] = from
    THEN [out EXCEPT ![Len(out)][3] = @ + len]
    ELSE Append(out, <<id, from, len>>)

RECURSIVE decodeLoop(_, _, _, _, _)
\* the while( size > 0 ) of kmdecDecode, after decode (called when the
\* staging buffer was empty) returned r.  A successful call that changes
\* nothing and leaves the buffer empty repeats forever.
decodeLoopCopy(d, size, total, out, g, r) ==
    LET len == Min(size, r.d.bufLen) IN
    IF r.d.fault # "none"
    THEN [total |-> total, d |-> r.d, out |-> out, eos |-> FALSE]
    ELSE IF r.rc = -1
    THEN [total |-> total, d |-> r.d, out |-> out, eos |-> TRUE]
    ELSE IF d.bufLen = 0 /\ r.d = d
    THEN [total |-> total, d |-> [d EXCEPT !.fault = "hang"], out |-> out,
          eos |-> FALSE]
    ELSE decodeLoop([r.d EXCEPT !.bufPos = @ + len, !.bufLen = @ - len],
                    size - len, total + len,
                    addRun(out, r.d.bufId, r.d.bufPos, len), g)

\* the while( size > 0 ) of kmdecDecode: [total, d, out, eos]
decodeLoop(d, size, total, out, g) ==
    IF size <= 0
    THEN [total |-> total, d |-> d, out |-> out, eos |-> FALSE]
    ELSE decodeLoopCopy(d, size, total, out, g,
             IF d.bufLen = 0 THEN decode(d, DECODE_PLAY, g)
             ELSE [rc |-> 0, d |-> d])

\* kmdecDecode: [total, d, out, eos]
kmdecDecode(d, size, g) == decodeLoop(d, size, 0, <<>>, g)

kmdecGetDuration(d) == (1000 * d.duration) \div CLOCK_BASE

kmdecGetPosition(d) == (1000 * d.clock) \div CLOCK_BASE

\* a faulty while loop of kmdecSeek: it does not stop at the target clock.
\* The amended C2 must not hold of it.
seekLoopAll(d, clock, g) == preScan(d, g).d

RECURSIVE seekLoop(_, _, _)
\* the while loop of kmdecSeek, after decode returned r
seekLoopNext(d, clock, g, r) ==
    IF r.d.fault # "none" \/ r.rc = -1 THEN r.d
    ELSE IF r.d = d THEN [d EXCEPT !.fault = "hang"]
    ELSE seekLoop(r.d, clock, g)

\* while( dec->clock < clock && decode( dec, DECODE_SEEK ) != -1 )
seekLoop(d, clock, g) ==
    IF ~(d.clock < clock) THEN d
    ELSE seekLoopNext(d, clock, g, decode(d, DECODE_SEEK, g))

\* the target clock of kmdecSeek.  The sum is a uint64_t: a negative sum is
\* the value plus 2^64, which is above every clock.
seekTarget(d, offset, origin) ==
    LET originClock == CASE origin = KMDEC_SEEK_SET -> 0
                         [] origin = KMDEC_SEEK_CUR -> d.clock
                         [] OTHER                   -> d.duration
        sum     == originClock + (CLOCK_BASE * offset) \div 1000
        above(x) == sum < 0 \/ sum > x
    IN IF offset < 0 /\ above(originClock) THEN 0
       ELSE IF above(d.duration) THEN d.duration
       ELSE sum

\* kmdecSeek, the return value after the while loop left the decoder d
seekResult(d, clock) == [rc |-> IF d.clock >= clock THEN 0 ELSE -1, d |-> d]

\* kmdecSeek, once the target clock is known
seekTo(d, clock, g) ==
    seekResult(seekLoop(IF clock < d.clock THEN reset(d, g).d ELSE d, clock, g),
               clock)

\* a faulty kmdecSeek: it rewinds the decoder before it returns -1.  C12
\* must not hold of it.
kmdecSeekRewinds(d, offset, origin, g) == [rc |-> -1, d |-> resetValues(d)]

\* kmdecSeek: [rc, d]
kmdecSeek(d, offset, origin, g) ==
    IF origin \notin {KMDEC_SEEK_SET, KMDEC_SEEK_CUR, KMDEC_SEEK_END}
    THEN [rc |-> -1, d |-> d]
    ELSE seekTo(d, seekTarget(d, offset, origin), g)

(* ------------------------------------------------------------------ *)
(* Input files                                                          *)
(* ------------------------------------------------------------------ *)
BE16(n) == <<n \div 256, n % 256>>
BE32(n) == <<0, 0>> \o BE16(n)
Hdr(format, tracks, division) ==
    MThd6 \o BE16(format) \o BE16(tracks) \o BE16(division)
Chunk(data) == MTrk \o BE32(Len(data)) \o data

EndOfTrack == <<255, 47, 0>>
NoteOn == <<144, 60, 64>>
NoteOff == <<128, 60, 0>>
Tempo500000 == <<255, 81, 3, 7, 161, 32>>
Tempo1000000 == <<255, 81, 3, 15, 66, 64>>
OneNote == <<0>> \o NoteOn \o <<2>> \o NoteOff \o <<0>> \o EndOfTrack

\* the files given to open, by name
FileBytes(name) ==
    CASE name = "S1" ->          \* scenario S1: only an end of track
           Hdr(0, 1, 96) \o Chunk(<<0>> \o EndOfTrack)
      [] name = "running" ->     \* note on, then a running status event
           Hdr(0, 1, 96)
             \o Chunk(<<0>> \o NoteOn \o <<3, 60, 0, 0>> \o EndOfTrack)
      [] name = "tick0" ->       \* every event at tick 0
           Hdr(0, 1, 96) \o Chunk(<<0>> \o NoteOn \o <<0>> \o EndOfTrack)
      [] name = "tempo" ->       \* two tempi, 12 ticks then 6 ticks
           Hdr(0, 1, 480)
             \o Chunk(<<0>> \o Tempo500000 \o <<12>> \o Tempo1000000
                        \o <<6>> \o EndOfTrack)
      [] name = "tempo1500" ->   \* tempo 500000 for 480 ticks, 1000000 for 480
           Hdr(0, 1, 480)
             \o Chunk(<<0>> \o Tempo500000 \o <<131, 96>> \o Tempo1000000
                        \o <<131, 96>> \o EndOfTrack)
      [] name = "tempo2" ->      \* the tempo is the third event of track 2
           Hdr(1, 2, 480)        \* at tick 12, track 1 has a note there
             \o Chunk(<<0>> \o NoteOn \o <<12>> \o NoteOff \o <<12>>
                        \o EndOfTrack)
             \o Chunk(<<0, 145, 62, 64, 12, 129, 62, 0, 0>> \o Tempo1000000
                        \o <<6>> \o EndOfTrack)
      [] name = "slow" ->        \* 2.5 ticks a second, two ticks
           Hdr(0, 1, 5)
             \o Chunk(<<0, 255, 81, 3, 30, 132, 128, 2>> \o EndOfTrack)
      [] name = "tempo0" ->      \* tempo 0, then two ticks
           Hdr(0, 1, 96)
             \o Chunk(<<0, 255, 81, 3, 0, 0, 0, 2>> \o EndOfTrack)
      [] name = "two" ->         \* format 1: a tempo track and a note track
           Hdr(1, 2, 96)
             \o Chunk(<<0>> \o Tempo500000 \o <<0>> \o EndOfTrack)
             \o Chunk(OneNote)
      [] name = "div24" ->       \* a tick longer than the clock unit
           Hdr(0, 1, 24) \o Chunk(OneNote)
      [] name = "metalen" ->     \* sequence number meta event of length 1
           Hdr(0, 1, 96)
             \o Chunk(<<0, 255, 0, 1, 0>> \o NoteOn \o <<4>> \o EndOfTrack)
      [] name = "metalen2" ->    \* the same after two ticks of a note
           Hdr(0, 1, 96)
             \o Chunk(<<0>> \o NoteOn \o <<2, 255, 0, 1, 0>> \o NoteOn
                        \o <<2>> \o EndOfTrack)
      [] name = "metarun" ->     \* a note on, a marker meta event of length
                                 \* 0, then data bytes in status position
           Hdr(0, 1, 96)
             \o Chunk(<<0>> \o NoteOn \o <<2, 255, 6, 0, 2, 60, 0, 0>>
                        \o EndOfTrack)
      [] name = "nostatus" ->    \* running status with no status before
           Hdr(0, 1, 96) \o Chunk(<<0, 60, 64, 0>> \o EndOfTrack)
      [] name = "sysex" ->       \* F0 SysEx that does not end with F7
           Hdr(0, 1, 96) \o Chunk(<<0, 240, 1, 0, 0>> \o EndOfTrack)
      [] name = "longvlq" ->     \* a delta time of five bytes after a note
           Hdr(0, 1, 96)
             \o Chunk(<<0>> \o NoteOn \o <<129, 128, 128, 128, 0, 0, 2>>
                        \o EndOfTrack)
      [] name = "cuttempo" ->    \* the file ends inside a tempo meta event
           Hdr(1, 2, 96)
             \o Chunk(<<0>> \o NoteOn \o <<4>> \o NoteOff \o <<0>> \o EndOfTrack)
             \o Chunk(<<0, 255, 81, 3, 7>>)
      [] name = "nodelta" ->     \* a track that ends after a delta time
           Hdr(0, 1, 96) \o Chunk(<<0>> \o NoteOn \o <<5>>)
      [] name = "magic" ->       \* header length 7
           <<77, 84, 104, 100, 0, 0, 0, 7>> \o BE16(0) \o BE16(1) \o BE16(96)
             \o Chunk(<<0>> \o EndOfTrack)
      [] name = "format2" ->
           Hdr(2, 1, 96) \o Chunk(<<0>> \o EndOfTrack)
      [] name = "smpte" ->       \* scenario S6: division 80 00
           Hdr(0, 1, 32768) \o Chunk(<<0>> \o EndOfTrack)
      [] name = "notMTrk" ->
           Hdr(0, 1, 96) \o <<77, 84, 114, 0>> \o BE32(4) \o <<0>> \o EndOfTrack
      [] name = "pastEnd" ->     \* declared length 64, 4 bytes of data
           Hdr(0, 1, 96) \o MTrk \o BE32(64) \o <<0>> \o EndOfTrack
      [] name = "delta5" ->      \* first delta time of five bytes
           Hdr(0, 1, 96)
             \o Chunk(<<129, 128, 128, 128, 0>> \o EndOfTrack)
      [] name = "missing" ->     \* two tracks declared, one empty chunk present
           Hdr(1, 2, 96) \o Chunk(<<>>)
      [] name = "os2" ->         \* OS/2 real-time data, division 24 * 4
           OS2Prefix \o <<3, 0, 247>>
             \o NoteOn \o <<248, 248, 248>> \o NoteOff
      [] name = "os2div0" ->     \* OS/2 real-time data, division 24 / 48
           OS2Prefix \o <<79, 0, 247>> \o NoteOn \o <<248>>
      [] name = "order" ->       \* two tracks with events at ticks 0 and 4;
                                 \* track 1 has two events at tick 0
           Hdr(1, 2, 480)
             \o Chunk(<<0>> \o NoteOn \o <<0, 176, 7, 100>>
                        \o <<4>> \o NoteOff \o <<0>> \o EndOfTrack)
             \o Chunk(<<0, 145, 62, 64, 4, 129, 62, 0, 0>> \o EndOfTrack)
      [] name = "os2run" ->      \* OS/2 data with two running status events
           OS2Prefix \o <<3, 0, 247>>
             \o NoteOn \o <<248, 62, 64, 248, 62, 0>>
      [] name = "os2nostatus" -> \* OS/2 data, running status with no status
           OS2Prefix \o <<3, 0, 247, 60, 64, 248>>
      [] name = "div0" ->        \* division 0, every event at tick 0
           Hdr(0, 1, 0) \o Chunk(<<0>> \o NoteOn \o <<0>> \o EndOfTrack)
      [] name = "div0note" ->    \* division 0, a note of two ticks
           Hdr(0, 1, 0) \o Chunk(OneNote)

FileNames ==
    {"S1", "running", "tick0", "tempo", "two", "div24", "metalen", "metalen2",
     "nostatus", "sysex", "longvlq", "cuttempo", "nodelta", "magic", "format2",
     "smpte", "notMTrk", "pastEnd", "delta5", "missing", "os2", "os2div0",
     "div0", "div0note", "order", "os2run", "os2nostatus", "tempo0"}

\* what an uninitialised byte may hold
UninitBytes == {0, 247}

\* the audio information given to open
AudioInfos ==
    {[bps |-> 16, channels |-> 2, sampleRate |-> 44100],
     [bps |-> 8, channels |-> 2, sampleRate |-> 44100]}

\* the sizes asked of kmdecDecode; DrainSize is more than any stream here
DrainSize == 1000000
Sizes == {1000, DrainSize}

\* the offsets (ms) and origins given to kmdecSeek
SeekOffsets == {-2000, 0, 5, 2000}
Origins == {KMDEC_SEEK_SET, KMDEC_SEEK_CUR, KMDEC_SEEK_END, 3}

(* ------------------------------------------------------------------ *)
(* The decoder as a state machine: the calls of the public API          *)
(* ------------------------------------------------------------------ *)
VARIABLES
    pc,     \* "start", "ready", "null" (open returned NULL), "closed",
            \* "hang" or "trap" (a call that never returned)
    file,   \* the name of the file given to open
    dec,    \* the KMDEC
    live,   \* the resources allocated and not released
    ret,    \* the last call: [op, a1, a2, rc, eos]
    obs     \* what a caller has seen since open (see observe*)

vars == <<pc, file, dec, live, ret, obs>>

call(op, a1, a2, rc, eos) ==
    [op |-> op, a1 |-> a1, a2 |-> a2, rc |-> rc, eos |-> eos]

pcAfter(d, ok) ==
    IF d.fault # "none" THEN d.fault ELSE IF ok THEN "ready" ELSE "null"

\* what one kmdecDecode of DrainSize returned: the bytes, and the calls the
\* synthesizer got
fullDrain(f) == [total |-> f.total, out |-> f.out, synth |-> f.d.synth]

\* obs after open: no call yet; full is one kmdecDecode of DrainSize from
\* the state open left
observeOpen(o, g) ==
    [scanError |-> o.scanError,
     phase |-> "fresh", delivered |-> 0, out |-> <<>>,
     full |-> IF o.ok
              THEN fullDrain(kmdecDecode(o.dec, DrainSize, g))
              ELSE [total |-> 0, out |-> <<>>, synth |-> <<>>],
     log1 |-> <<>>, bytes1 |-> 0, mark |-> 0, bytes2 |-> 0]

\* obs after a kmdecDecode of `size` that returned r, from decoder d.
\* Phases: fresh, play1 (only decodes, none short), drained1 (the first short
\* decode), post1 (decodes after it), rewound (drained1, then seek(0, SET)
\* returned 0; rewindFailed if it returned -1), play2 (decodes after it, none
\* short), drained2 (the first short decode after it), other.
observeDecode(o, d, size, r) ==
    LET short == r.total < size IN
    CASE o.phase \in {"fresh", "play1"} ->
           [o EXCEPT !.phase = IF short THEN "drained1" ELSE "play1",
                     !.delivered = @ + r.total,
                     !.out = IF r.out = <<>> THEN @
                             ELSE addRun(@, r.out[1][1], r.out[1][2], r.out[1][3])
                                    \o Tail(r.out),
                     !.log1 = IF short THEN r.d.synth ELSE @,
                     !.bytes1 = IF short THEN o.delivered + r.total ELSE @]
      [] o.phase \in {"drained1", "post1"} ->
           [o EXCEPT !.phase = "post1",
                     !.delivered = @ + r.total,
                     !.out = IF r.out = <<>> THEN @
                             ELSE addRun(@, r.out[1][1], r.out[1][2], r.out[1][3])
                                    \o Tail(r.out)]
      [] o.phase \in {"rewound", "play2"} ->
           [o EXCEPT !.phase = IF short THEN "drained2" ELSE "play2",
                     !.bytes2 = @ + r.total]
      [] OTHER -> [o EXCEPT !.phase = "other"]

\* obs after a kmdecSeek that returned r
observeSeek(o, offset, origin, r) ==
    IF o.phase = "drained1" /\ offset = 0 /\ origin = KMDEC_SEEK_SET
    THEN [o EXCEPT !.phase = IF r.rc = 0 THEN "rewound" ELSE "rewindFailed",
                   !.mark = Len(r.d.synth),
                   !.delivered = 0, !.out = <<>>]
    ELSE [o EXCEPT !.phase = "other", !.delivered = 0, !.out = <<>>,
                   !.log1 = <<>>, !.bytes1 = 0, !.mark = 0, !.bytes2 = 0]

Init ==
    /\ pc = "start"
    /\ file = "none"
    /\ dec = newDecoder(<<>>, FALSE)
    /\ live = {}
    /\ ret = call("none", 0, 0, 0, FALSE)
    /\ obs = observeOpen([scanError |-> FALSE, ok |-> FALSE], 0)

\* kmdecOpenEx (closeFd) / kmdecOpenFdEx (~closeFd); ret.a1 is 1 when the
\* environment refused something
Open(name, sf2ok, pkai, closeFd, refused, build, g) ==
    /\ pc = "start"
    /\ refused = "fd" => closeFd
    /\ LET o == kmdecOpen(FileBytes(name), sf2ok, pkai, closeFd, refused,
                          build, g) IN
       /\ pc' = pcAfter(o.dec, o.ok)
       /\ file' = name
       /\ dec' = o.dec
       /\ live' = o.live
       /\ ret' = call("open", IF refused = "none" THEN 0 ELSE 1, 0,
                       IF o.ok THEN 0 ELSE -1, FALSE)
       /\ obs' = observeOpen(o, g)

Decode(size, g) ==
    /\ pc = "ready"
    /\ LET r == kmdecDecode(dec, size, g) IN
       /\ pc' = pcAfter(r.d, TRUE)
       /\ dec' = r.d
       /\ live' = IF r.d.bufId # 0 THEN live \cup {"buffer"} ELSE live
       /\ ret' = call("decode", size, 0, r.total, r.eos)
       /\ obs' = observeDecode(obs, dec, size, r)
    /\ UNCHANGED file

Seek(offset, origin, g) ==
    /\ pc = "ready"
    /\ LET r == kmdecSeek(dec, offset, origin, g) IN
       /\ pc' = pcAfter(r.d, TRUE)
       /\ dec' = r.d
       /\ ret' = call("seek", offset, origin, r.rc, FALSE)
       /\ obs' = observeSeek(obs, offset, origin, r)
    /\ UNCHANGED <<file, live>>

Close ==
    /\ pc = "ready"
    /\ pc' = "closed"
    /\ live' = kmdecClose(dec, live)
    /\ ret' = call("close", 0, 0, 0, FALSE)
    /\ UNCHANGED <<file, dec, obs>>

Next ==
    \/ \E name \in FileNames, sf2ok \in BOOLEAN, pkai \in AudioInfos,
          closeFd \in BOOLEAN, refused \in Refusals, build \in DivZero,
          g \in UninitBytes :
            Open(name, sf2ok, pkai, closeFd, refused, build, g)
    \/ \E size \in Sizes, g \in UninitBytes : Decode(size, g)
    \/ \E offset \in SeekOffsets, origin \in Origins, g \in UninitBytes :
            Seek(offset, origin, g)
    \/ Close

Spec == Init /\ [][Next]_vars

(* ------------------------------------------------------------------ *)
(* readVarQ alone: one call on a track that starts with a given encoding *)
(* ------------------------------------------------------------------ *)
\* the canonical encoding of v in 0..2^28-1: 7 bits a byte, most significant
\* first, the high bit set on every byte but the last
VlqEncode(v) ==
    IF v < 128 THEN <<v>>
    ELSE IF v < 16384 THEN <<128 + (v \div 128), v % 128>>
    ELSE IF v < 2097152
    THEN <<128 + (v \div 16384), 128 + ((v \div 128) % 128), v % 128>>
    ELSE <<128 + (v \div 2097152), 128 + ((v \div 16384) % 128),
           128 + ((v \div 128) % 128), v % 128>>

\* the values tried: those within VlqSpan of a change of length
VlqSpan == 8
VlqValues ==
    {v \in UNION {(b - VlqSpan)..(b + VlqSpan - 1) :
                     b \in {0, 128, 16384, 2097152, 268435456}} :
        v >= 0 /\ v < 268435456}

\* encodings whose fourth byte still has the high bit set
VlqOverlong ==
    {<<129, 128, 128, 128, 0>>, <<255, 255, 255, 255, 127>>,
     <<128, 128, 128, 128, 128>>, <<129, 128, 128, 128, 128, 0>>}

\* a decoder with one track that holds `bytes` and an end of track after it
vlqDecoder(bytes) ==
    [newDecoder(bytes \o EndOfTrack, FALSE)
       EXCEPT !.header = [format |-> 0, tracks |-> 1, division |-> 96],
              !.tracks = <<newTrack(0, Len(bytes) + Len(EndOfTrack))>>]

\* ret.a1 is the value that was encoded, -1 for an overlong encoding
InitVlq ==
    /\ pc = "vlq"
    /\ file = "none"
    /\ live = {}
    /\ obs = observeOpen([scanError |-> FALSE, ok |-> FALSE], 0)
    /\ \/ \E v \in VlqValues :
            /\ dec = vlqDecoder(VlqEncode(v))
            /\ ret = call("none", v, 0, 0, FALSE)
       \/ \E bytes \in VlqOverlong :
            /\ dec = vlqDecoder(bytes)
            /\ ret = call("none", -1, 0, 0, FALSE)

\* one call of readVarQ on track 1; ret.a2 is the value it stored
ReadVarQ(g) ==
    /\ pc = "vlq"
    /\ LET r == readVarQ(dec, 1, g) IN
       /\ pc' = "vlqDone"
       /\ dec' = r.d
       /\ ret' = call("readVarQ", ret.a1, r.val, r.rc, FALSE)
    /\ UNCHANGED <<file, live, obs>>

NextVlq == \E g \in UninitBytes : ReadVarQ(g)

SpecVlq == InitVlq /\ [][NextVlq]_vars

(* ------------------------------------------------------------------ *)
(* decodeDelta alone: one call on a track with a given nextTick          *)
(* ------------------------------------------------------------------ *)
\* the ticks a track has before the call: sums of delta times, the low ones
\* and those within a delta time of the end of the word
DeltaTicks ==
    {0, 96, 268435455, END_OF_TRACK - 268435455, END_OF_TRACK - 268435454,
     END_OF_TRACK - 16384, END_OF_TRACK - 128, END_OF_TRACK - 1}

\* a decoder whose track 1 is at tick t, before the delta time `bytes`
deltaDecoder(t, bytes) ==
    [vlqDecoder(bytes) EXCEPT !.tracks[1].nextTick = t]

\* the same with the track at its end: offset == length
endedDecoder(t) ==
    [vlqDecoder(<<>>) EXCEPT !.tracks[1].nextTick = t,
                             !.tracks[1].offset = Len(EndOfTrack),
                             !.mfd.offset = Len(EndOfTrack)]

\* ret.a1 is the tick of the track before the call, ret.a2 the delta time
\* that is encoded (-1: the track is at its end)
InitDelta ==
    /\ pc = "delta"
    /\ file = "none"
    /\ live = {}
    /\ obs = observeOpen([scanError |-> FALSE, ok |-> FALSE], 0)
    /\ \E t \in DeltaTicks :
          \/ \E v \in VlqValues :
                /\ dec = deltaDecoder(t, VlqEncode(v))
                /\ ret = call("none", t, v, 0, FALSE)
          \/ /\ dec = endedDecoder(t)
             /\ ret = call("none", t, -1, 0, FALSE)

\* one call of decodeDelta on track 1
DecodeDelta(g) ==
    /\ pc = "delta"
    /\ LET r == decodeDelta(dec, 1, g) IN
       /\ pc' = "deltaDone"
       /\ dec' = r.d
       /\ ret' = call("decodeDelta", ret.a1, ret.a2, r.rc, FALSE)
    /\ UNCHANGED <<file, live, obs>>

NextDelta == \E g \in UninitBytes : DecodeDelta(g)

SpecDelta == InitDelta /\ [][NextDelta]_vars

(* ------------------------------------------------------------------ *)
(* decodeOS2Event alone: one call on a file that starts with a SysEx     *)
(* ------------------------------------------------------------------ *)
RECURSIVE Filler(_, _)
\* n bytes b
Filler(n, b) == IF n = 0 THEN <<>> ELSE <<b>> \o Filler(n - 1, b)

\* the bytes tried after the F0 of the first event: up to SysExSpan bytes
\* that are not F7, then the end of the file, an F7, or an F7 and a timing
\* clock; and two messages of the dialect
SysExSpan == 11
SysExTails ==
    {Filler(n, b) \o e : n \in 0..SysExSpan, b \in {0, 100},
                         e \in {<<>>, <<247>>, <<247, 248>>}}
      \cup {<<0, 0, 58, 1, 5, 0, 247>>, <<0, 0, 58, 3, 2, 120, 9, 247>>}

\* the decoder initMidiInfo leaves for the file: division 24 * 4, one track
\* from the first event to the end of the file
sysExDecoder(tail) ==
    initMidiInfo(newDecoder(OS2Prefix \o <<3, 0, 247, 240>> \o tail, TRUE),
                 0).d

\* ret.a1 is the number of bytes after the F0
InitSysEx ==
    /\ pc = "sysex"
    /\ file = "none"
    /\ live = {}
    /\ obs = observeOpen([scanError |-> FALSE, ok |-> FALSE], 0)
    /\ \E tail \in SysExTails :
          /\ dec = sysExDecoder(tail)
          /\ ret = call("none", Len(tail), 0, 0, FALSE)

\* one call of decodeOS2Event on track 1: it reads the F0 and calls
\* decodeOS2SysExEvent
DecodeSysEx(g) ==
    /\ pc = "sysex"
    /\ LET r == decodeOS2Event(dec, 1, g) IN
       /\ pc' = IF r.d.fault # "none" THEN r.d.fault ELSE "sysexDone"
       /\ dec' = r.d
       /\ ret' = call("decodeOS2Event", ret.a1, 0, r.rc, FALSE)
    /\ UNCHANGED <<file, live, obs>>

NextSysEx == \E g \in UninitBytes : DecodeSysEx(g)

SpecSysEx == InitSysEx /\ [][NextSysEx]_vars

(* ------------------------------------------------------------------ *)
(* The loop of openEx that calculates the duration, one decode() a step *)
(* ------------------------------------------------------------------ *)
\* the files scanned: their header and chunks are accepted
ScanFiles ==
    {"tempo", "tempo1500", "tempo2", "two", "order", "running", "nodelta",
     "div24", "slow", "metarun"}

\* the decoder openEx has before while( decode( dec, DECODE_SEEK ) != -1 )
scanDecoder(name) ==
    openSettings([initMidiInfo(newDecoder(FileBytes(name), TRUE), 0).d
                    EXCEPT !.sf = 1],
                 [bps |-> 16, channels |-> 2, sampleRate |-> 44100])

InitScan ==
    /\ pc = "scan"
    /\ file \in ScanFiles
    /\ dec = scanDecoder(file)
    /\ live = Opened
    /\ ret = call("none", 0, 0, 0, FALSE)
    /\ obs = observeOpen([scanError |-> FALSE, ok |-> FALSE], 0)

\* one decode( dec, DECODE_SEEK ) of the loop; on -1 the loop ends and
\* dec->duration = dec->clock
ScanStep(g) ==
    /\ pc = "scan"
    /\ LET r == decode(dec, DECODE_SEEK, g) IN
       /\ pc' = IF r.d.fault # "none" THEN r.d.fault
                ELSE IF r.rc = -1 THEN "scanned"
                ELSE IF r.d = dec THEN "hang"
                ELSE "scan"
       /\ dec' = IF r.d.fault = "none" /\ r.rc = -1
                 THEN [r.d EXCEPT !.duration = r.d.clock]
                 ELSE r.d
       /\ ret' = call("decode", DECODE_SEEK, 0, r.rc, FALSE)
    /\ UNCHANGED <<file, live, obs>>

NextScan == \E g \in UninitBytes : ScanStep(g)

SpecScan == InitScan /\ [][NextScan]_vars

(* ------------------------------------------------------------------ *)
(* Properties                                                           *)
(* ------------------------------------------------------------------ *)
\* every track is ENDED
AllEnded(d) == \A i \in 1..Len(d.tracks) : d.tracks[i].nextTick = END_OF_TRACK

\* the phases in which the caller has only called decode since open
Pure == obs.phase \in {"fresh", "play1", "drained1", "post1"}

Abs(x) == IF x < 0 THEN -x ELSE x
Max(a, b) == IF a > b THEN a ELSE b
CeilDiv(a, b) == (a + b - 1) \div b

RECURSIVE TakeRuns(_, _)
\* the first n bytes of a sequence of runs
TakeRuns(runs, n) ==
    IF n <= 0 \/ runs = <<>> THEN <<>>
    ELSE IF runs[1][3] >= n THEN << <<runs[1][1], runs[1][2], n>> >>
    ELSE <<runs[1]>> \o TakeRuns(Tail(runs), n - runs[1][3])

IsPrefix(s, t) == Len(s) <= Len(t) /\ s = SubSeq(t, 1, Len(s))

\* C1: for every file open accepts, after any sequence of decode and seek
\* calls (also calls repeated after a decode returned short),
\* position() <= duration().
C1_PositionWithinDuration ==
    pc = "ready" => kmdecGetPosition(dec) <= kmdecGetDuration(dec)

\* C2: after seek(t, BEGIN) with 0 <= t <= duration(), position() is within
\* the clock unit (10 ms) of t, for every accepted file.
C2_SeekWithinClockUnit ==
    (pc = "ready" /\ ret.op = "seek" /\ ret.a2 = KMDEC_SEEK_SET
        /\ 0 <= ret.a1 /\ ret.a1 <= kmdecGetDuration(dec))
    => Abs(kmdecGetPosition(dec) - ret.a1) <= CLOCK_UNIT_MS

\* the length of one tick in microseconds at the tempo in force (no tick
\* has a length where the division is 0)
\* the microseconds of a clock step of one tick at the tempo in force:
\* CLOCK_BASE / ticksPerSec, with ticksPerSec the integer decode() computes
TickMicros(d) ==
    divide(CLOCK_BASE, divide(d.header.division * CLOCK_BASE, d.tempo))

\* C2, amended: after a seek(t, BEGIN) with 0 <= t <= duration() that
\* returns 0, position() is not before t, and the clock is past t by less
\* than the longer of the clock unit and a step of one tick at the tempo in
\* force.
C2_SeekWithinOneStep ==
    (pc = "ready" /\ ret.op = "seek" /\ ret.a2 = KMDEC_SEEK_SET /\ ret.rc = 0
        /\ 0 <= ret.a1 /\ ret.a1 <= kmdecGetDuration(dec))
    => /\ kmdecGetPosition(dec) >= ret.a1
       /\ dec.clock - 1000 * ret.a1 < Max(dec.clockUnit, TickMicros(dec))

\* C2, witness: a seek(5, BEGIN) that returned 0 on a file whose tick is
\* longer than the clock unit, and left position() more than 10 ms past 5
C2_Witness ==
    /\ pc = "ready" /\ ret.op = "seek" /\ ret.a2 = KMDEC_SEEK_SET /\ ret.rc = 0
    /\ ret.a1 = 5 /\ ret.a1 <= kmdecGetDuration(dec)
    /\ TickMicros(dec) > dec.clockUnit
    /\ kmdecGetPosition(dec) - ret.a1 > CLOCK_UNIT_MS

\* the clock a seek counts from
OriginClock(d, origin) ==
    CASE origin = KMDEC_SEEK_SET -> 0
      [] origin = KMDEC_SEEK_CUR -> d.clock
      [] OTHER                   -> d.duration

\* C3: for whence BEGIN, CURRENT or END, a seek whose target is past the end
\* returns 0 and leaves position() = duration(); a seek whose target is
\* before the beginning returns 0 and leaves position() = 0.
C3_SeekClamps ==
    [][(pc = "ready" /\ pc' = "ready" /\ ret'.op = "seek"
          /\ ret'.a2 \in {KMDEC_SEEK_SET, KMDEC_SEEK_CUR, KMDEC_SEEK_END})
       => LET target == OriginClock(dec, ret'.a2) + 1000 * ret'.a1 IN
          /\ target > dec.duration
               => ret'.rc = 0 /\ kmdecGetPosition(dec') = kmdecGetDuration(dec')
          /\ target < 0
               => ret'.rc = 0 /\ kmdecGetPosition(dec') = 0]_vars

\* C4: after a drain to the end of the stream, seek(0, BEGIN) returns 0 and
\* a second drain delivers the same synthesizer calls (events and render
\* sizes) and the same number of bytes as the first.
C4_ReplayReproducible ==
    /\ obs.phase # "rewindFailed"
    /\ (pc = "ready" /\ obs.phase = "drained2")
         => /\ SubSeq(dec.synth, obs.mark + 1, Len(dec.synth)) = obs.log1
            /\ obs.bytes2 = obs.bytes1

\* C5: whatever the sizes of the decode calls, the bytes returned so far are
\* the first bytes of the stream one full drain returns, and never more than
\* it; a call returns fewer bytes than asked only when the scheduler
\* returned -1 during that call.
C5_ChunkingIndependent ==
    (pc = "ready" /\ Pure)
    => /\ obs.delivered <= obs.full.total
       /\ obs.out = TakeRuns(obs.full.out, obs.delivered)
       /\ IsPrefix(dec.synth, obs.full.synth)
       /\ (ret.op = "decode" /\ ret.rc < ret.a1) => ret.eos

\* C6: the frames of a drain from position 0 to the end of the stream are
\* within one frame of ceil(duration * sample rate), with the duration taken
\* in milliseconds (duration()) or in microseconds.
C6_FramesMatchDuration ==
    (pc = "ready" /\ obs.phase = "drained1")
    => LET frames == obs.bytes1 \div dec.sampleSize IN
       \/ Abs(frames - CeilDiv(kmdecGetDuration(dec) * dec.sampleRate, 1000)) <= 1
       \/ Abs(frames - CeilDiv(dec.duration * (dec.sampleRate \div 100), 10000)) <= 1

\* C7: once every track is ENDED and the staging buffer is drained (decode
\* has returned short), a decode call returns 0 bytes and leaves tick and
\* clock (so position()) unchanged.
C7_EndOfStreamSticky ==
    [][(pc = "ready" /\ AllEnded(dec) /\ dec.bufLen = 0 /\ ret'.op = "decode")
       => /\ ret'.rc = 0
          /\ dec'.tick = dec.tick
          /\ dec'.clock = dec.clock
          /\ AllEnded(dec')]_vars

\* C7, witness: every track is ENDED, a decode returned short, and a later
\* decode call returned 0
C7_Witness ==
    /\ pc = "ready" /\ AllEnded(dec) /\ Len(dec.tracks) > 0
    /\ obs.phase = "post1" /\ ret.op = "decode" /\ ret.rc = 0
    /\ dec.clock > 0

\* C8: right after a successful open position() = 0, tick = 0 and the
\* staging buffer is empty; decoding from there until decode returns short
\* leaves position() = duration().
C8_OpenThenDrain ==
    /\ (pc = "ready" /\ ret.op = "open")
         => kmdecGetPosition(dec) = 0 /\ dec.tick = 0 /\ dec.bufLen = 0
    /\ (pc = "ready" /\ obs.phase = "drained1")
         => kmdecGetPosition(dec) = kmdecGetDuration(dec)

\* what open may leave allocated when it returns NULL: the caller's handle
Kept(d) == IF d.closeFd THEN {} ELSE {"fd"}

\* C9: if a format error occurs during open, also in a track's event stream
\* during the pre-scan, open returns NULL and releases all it allocated.
C9_FormatErrorFailsOpen ==
    /\ (ret.op = "open" /\ obs.scanError) => pc = "null"
    /\ (pc = "null" /\ ret.a1 = 0) => live \subseteq Kept(dec)

RECURSIVE ChunksOk(_, _, _)
\* the n track chunks from byte `at` on start with MTrk and end in the file
ChunksOk(bytes, at, n) ==
    IF n = 0 THEN TRUE
    ELSE /\ at + 8 <= Len(bytes)
         /\ SubSeq(bytes, at + 1, at + 4) = MTrk
         /\ at + 8 + ntohl(bytes, at + 4) <= Len(bytes)
         /\ ChunksOk(bytes, at + 8 + ntohl(bytes, at + 4), n - 1)

\* a file that is no OS/2 real-time data and that has a wrong magic, a
\* format of 2 or more, an SMPTE division, or a declared track chunk that
\* does not start with MTrk or extends past the end of the file
BadContainer(bytes) ==
    /\ ~(Len(bytes) >= 10 /\ SubSeq(bytes, 1, 7) = OS2Prefix /\ bytes[10] = 247)
    /\ \/ Len(bytes) < 14
       \/ SubSeq(bytes, 1, 8) # MThd6
       \/ ntohs(bytes, 8) >= 2
       \/ ntohs(bytes, 12) >= 32768
       \/ ~ChunksOk(bytes, 14, ntohs(bytes, 10))

\* C10: open returns NULL for every file that is no OS/2 data and has a wrong
\* magic, a format of 2 or more, an SMPTE division, or a declared track chunk
\* that does not start with MTrk or extends past the end of the file.
C10_BadContainerRejected ==
    (ret.op = "open" /\ BadContainer(FileBytes(file))) => pc = "null"

\* C11: open returns NULL for every file whose division is 0, in the
\* standard MIDI file branch and in the OS/2 branch: no decoder exists with
\* division = 0.
C11_DivisionPositive ==
    (ret.op = "open" /\ pc # "null") => dec.header.division > 0

\* C12: a seek with a whence outside {BEGIN, CURRENT, END} returns -1 and
\* leaves the whole decoder as it was: tick, clock, tempo, track cursors,
\* staging buffer and synthesizer.
C12_UnknownWhenceRejected ==
    [][(pc = "ready" /\ ret'.op = "seek"
          /\ ret'.a2 \notin {KMDEC_SEEK_SET, KMDEC_SEEK_CUR, KMDEC_SEEK_END})
       => /\ ret'.rc = -1
          /\ dec' = dec
          /\ pc' = "ready"
          /\ live' = live]_vars

\* C12, witness: a seek with whence 3 returned -1 in the middle of a stream,
\* with bytes left in the staging buffer
C12_Witness ==
    /\ pc = "ready" /\ ret.op = "seek" /\ ret.rc = -1
    /\ ret.a2 \notin {KMDEC_SEEK_SET, KMDEC_SEEK_CUR, KMDEC_SEEK_END}
    /\ dec.tick > 0 /\ dec.bufLen > 0 /\ Len(dec.synth) > 0

\* the entries of one kind in a decoder's trace
TraceOf(d, kind) == SelectSeq(d.trace, LAMBDA e : e[1] = kind)

\* the absolute ticks (sums of the delta times, read off the bytes of the
\* file) of the events for the synthesizer, in the order a drain from the
\* start passes them on
EventTicks(name) ==
    CASE name = "running" -> <<0, 3>>
      [] name = "two"     -> <<0, 2>>
      [] name = "div24"   -> <<0, 2>>
      [] name = "order"   -> <<0, 0, 0, 4, 4>>
      [] name \in {"tick0", "div0"} -> <<0>>
      [] name = "div0note" -> <<0, 2>>
      [] OTHER            -> <<>>

\* C13: between two system resets the events passed to the synthesizer
\* carry non-decreasing absolute ticks, and an event of absolute tick T is
\* passed on when the decoder's tick is T, not before and not after.
C13_EventsInTickOrder ==
    LET ev == TraceOf(dec, "event") IN
    /\ \A k \in 1..Len(ev) : ev[k][3] = ev[k][4]
    /\ \A k \in 1..Len(ev) : \A l \in k..Len(ev) : ev[k][4] <= ev[l][4]
    /\ (pc = "ready" /\ obs.phase = "drained1"
          /\ file \in {"running", "two", "div24", "order"})
         => [k \in 1..Len(ev) |-> ev[k][4]] = EventTicks(file)

\* C13, witness: a drain of the two-track file with events at ticks 0 and
\* 4; the events of tick 4 were passed on after a clock step
C13_Witness ==
    /\ pc = "ready" /\ obs.phase = "drained1" /\ file = "order"
    /\ Len(TraceOf(dec, "event")) = 5
    /\ TraceOf(dec, "event")[5][4] = 4

\* C14: events of the same absolute tick are passed to the synthesizer in
\* track order: every event of track i at tick T before any event of a track
\* j > i at tick T, also when track i has several events at T.
C14_SameTickInTrackOrder ==
    LET ev == TraceOf(dec, "event") IN
    \A k \in 1..Len(ev) : \A l \in k..Len(ev) :
        ev[k][3] = ev[l][3] => ev[k][2] <= ev[l][2]

\* track i of decoder d stands before an event whose status byte is omitted
AtRunningStatus(d, i) ==
    /\ d.tracks[i].offset < d.tracks[i].length
    /\ d.tracks[i].start + d.tracks[i].offset < d.mfd.length
    /\ d.mfd.buffer[d.tracks[i].start + d.tracks[i].offset + 1] < 128
    /\ d.header.format = OS2MIDI
         => d.mfd.offset = d.tracks[i].start + d.tracks[i].offset

\* the decoder d over the same file with the status of track i written out
\* before the event track i stands at
ExplicitStatus(d, i) ==
    LET at == d.tracks[i].start + d.tracks[i].offset IN
    [d EXCEPT !.mfd.buffer = SubSeq(@, 1, at) \o <<d.tracks[i].status>>
                               \o SubSeq(@, at + 1, Len(@)),
              !.mfd.length = @ + 1,
              !.tracks = [j \in DOMAIN @ |->
                            IF j = i THEN [@[j] EXCEPT !.length = @ + 1]
                            ELSE IF @[j].start > at
                            THEN [@[j] EXCEPT !.start = @ + 1]
                            ELSE @[j]]]

\* the event decoder of the dialect of decoder d
EventDecoder(d, i, g) ==
    IF d.header.format = OS2MIDI THEN decodeOS2Event(d, i, g)
    ELSE decodeEvent(d, i, g)

\* two results of the event decoder for track i that differ in nothing but
\* the one byte more that the second has read
SameButOneByte(r1, r2, i) ==
    /\ r1.rc = r2.rc
    /\ r1.d.synth = r2.d.synth
    /\ r1.d.trace = r2.d.trace
    /\ r1.d.tempo = r2.d.tempo
    /\ r1.d.fault = r2.d.fault
    /\ r1.d.tracks[i].nextTick = r2.d.tracks[i].nextTick
    /\ r1.d.tracks[i].status = r2.d.tracks[i].status
    /\ r1.d.tracks[i].offset + 1 = r2.d.tracks[i].offset

\* C15: an event whose status byte is omitted is decoded like the same
\* event with the last channel status of the track written out (same
\* synthesizer call, same offset behind the bytes of the event, same
\* nextTick), and fails when the track has seen no channel status since
\* open or reset.
C15_RunningStatus ==
    pc = "ready" =>
    \A i \in 1..Len(dec.tracks) : \A g \in UninitBytes :
        AtRunningStatus(dec, i) =>
            IF dec.tracks[i].status >= 128
            THEN SameButOneByte(EventDecoder(dec, i, g),
                                EventDecoder(ExplicitStatus(dec, i), i, g), i)
            ELSE EventDecoder(dec, i, g).rc = -1

\* C15, witness: a track with a channel status stands before an event with
\* no status byte, and the event decoder passes a call to the synthesizer
C15_Witness ==
    /\ pc = "ready"
    /\ \E i \in 1..Len(dec.tracks) :
          /\ AtRunningStatus(dec, i)
          /\ dec.tracks[i].status >= 128
          /\ dec.tracks[i].nextTick = dec.tick
          /\ EventDecoder(dec, i, 0).rc = 0
          /\ Len(EventDecoder(dec, i, 0).d.synth) = Len(dec.synth) + 1

\* C16: readVarQ on the canonical encoding (1 to 4 bytes) of v in
\* 0..2^28-1 returns v and advances the offset of the track by the length
\* of the encoding; an encoding whose fourth byte has the high bit set is
\* rejected.
C16_VlqRoundTrip ==
    pc = "vlqDone" =>
        IF ret.a1 >= 0
        THEN /\ ret.rc = 0
             /\ ret.a2 = ret.a1
             /\ dec.tracks[1].offset = Len(VlqEncode(ret.a1))
             /\ memTell(dec.mfd) = Len(VlqEncode(ret.a1))
        ELSE ret.rc = -1

\* C16, witness: readVarQ returned the largest value, 2^28-1, from four
\* bytes
C16_Witness ==
    /\ pc = "vlqDone" /\ ret.rc = 0 /\ ret.a2 = 268435455
    /\ dec.tracks[1].offset = 4

\* C17: the handle that open opened is closed exactly once, by close or
\* by the open that fails after it opened the handle, and it is open as
\* long as the decoder is in use; the handle given to open_fd is never
\* closed by the decoder.
C17_HandleOwnership ==
    /\ (pc \in {"null", "closed"} /\ dec.closeFd) => "fd" \notin live
    /\ (pc = "ready" /\ dec.closeFd) => "fd" \in live
    /\ (pc \in {"null", "closed", "ready"} /\ ~dec.closeFd) => "fd" \in live

\* C18: open terminates on every input: the loop of open that calculates
\* the duration never reaches a decoder from which decode() succeeds and
\* changes neither the tick nor the offset of a track.
C18_OpenTerminates == ret.op = "open" => pc # "hang"

\* the tempo in force at entry k of the trace: that of the last tempo
\* event before it
TempoBefore(tr, k) ==
    LET js == {j \in 1..(k - 1) : tr[j][1] = "tempo"} IN
    IF js = {} THEN DEFAULT_TEMPO
    ELSE tr[CHOOSE j \in js : \A j2 \in js : j2 <= j][5]

RECURSIVE ClockOf(_, _, _, _)
\* the microseconds of the entries from..to of the trace: every step of
\* delta ticks, converted with the tempo in force at the step
ClockOf(tr, from, to, division) ==
    IF from > to THEN 0
    ELSE IF from = to
    THEN IF tr[from][1] = "step"
         THEN (CLOCK_BASE * tr[from][3])
                \div ((division * CLOCK_BASE) \div TempoBefore(tr, from))
         ELSE 0
    ELSE ClockOf(tr, from, (from + to) \div 2, division)
           + ClockOf(tr, (from + to) \div 2 + 1, to, division)

\* the absolute ticks of the tempo events of the files, from their bytes
TempoTicks(name) ==
    CASE name = "tempo"     -> <<0, 12>>
      [] name = "tempo1500" -> <<0, 480>>
      [] name = "tempo2"    -> <<12>>
      [] name \in {"two", "slow"} -> <<0>>
      [] OTHER              -> <<>>

\* C19: a tempo meta event at tick T, in any track, changes the conversion
\* of ticks to microseconds for exactly the ticks >= T: every step before
\* it ends at T or earlier, every step after it starts at T or later, and
\* the clock is the sum of the steps, each converted with the tempo of the
\* last tempo event before it.  The file with division 480, tempo 500000
\* for ticks 0..480 and 1000000 for ticks 480..960 has a duration within
\* 1 ms of 1500.
C19_TempoFromItsTick ==
    pc \in {"scan", "scanned"} =>
        LET tr == dec.trace IN
        /\ \A j \in 1..Len(tr) : tr[j][1] = "tempo" =>
              /\ tr[j][3] = tr[j][4]
              /\ \A k \in 1..Len(tr) : tr[k][1] = "step" =>
                    IF k < j THEN tr[k][2] + tr[k][3] <= tr[j][3]
                    ELSE tr[k][2] >= tr[j][3]
        /\ \A k \in 1..Len(tr) : tr[k][1] = "step" =>
              tr[k][4] = TempoBefore(tr, k)
        /\ dec.clock = ClockOf(tr, 1, Len(tr), dec.header.division)
        /\ pc = "scanned" =>
              /\ dec.duration = dec.clock
              /\ [k \in 1..Len(TraceOf(dec, "tempo")) |->
                    TraceOf(dec, "tempo")[k][3]] = TempoTicks(file)
        /\ (pc = "scanned" /\ file = "tempo1500") =>
              Abs(kmdecGetDuration(dec) - 1500) <= 1

\* C19, witness: the file of 960 ticks was scanned to its end; both tempo
\* events were decoded, the second at tick 480
C19_Witness ==
    /\ pc = "scanned" /\ file = "tempo1500"
    /\ Len(TraceOf(dec, "tempo")) = 2
    /\ TraceOf(dec, "tempo")[2][3] = 480
    /\ dec.tick = 960
    /\ kmdecGetDuration(dec) = 1499

\* the files in which every event lies inside its chunk and every track
\* ends with FF 2F 00
WellFormed ==
    {"S1", "running", "tick0", "tempo", "two", "div24", "order", "div0",
     "div0note", "tempo0"}

\* the maximum over the tracks of the sum of the delta times, from the
\* bytes of the file
LastTick(name) ==
    CASE name \in {"S1", "tick0", "div0"} -> 0
      [] name \in {"two", "div24", "div0note", "tempo0"} -> 2
      [] name = "running" -> 3
      [] name = "order" -> 4
      [] name = "tempo" -> 18

\* C20: for a well-formed SMF file the scheduler signals the end of the
\* stream exactly when the tick is the maximum over the tracks of the sum
\* of the delta times and every event of every track was passed on once:
\* open gets there, a decode that reports the end has got there, and once
\* every track has ended the next call of the scheduler returns -1.  A
\* file whose delta times are all 0 has duration 0 and decode returns 0
\* bytes.
C20_EndAtLastTick ==
    file \in WellFormed =>
        /\ ret.op = "open" => pc \in {"ready", "null"}
        /\ (ret.op = "open" /\ pc = "null") => ~obs.scanError
        /\ pc = "ready" =>
              /\ pc = "ready" /\ AllEnded(dec) =>
                    /\ dec.tick = LastTick(file)
                    /\ [k \in 1..Len(TraceOf(dec, "event")) |->
                          TraceOf(dec, "event")[k][3]] = EventTicks(file)
                    /\ decode(dec, DECODE_PLAY, 0).rc = -1
              /\ ~AllEnded(dec) => decode(dec, DECODE_SEEK, 0).d # dec
              /\ (ret.op = "decode" /\ ret.eos) => AllEnded(dec)
              /\ LastTick(file) = 0 =>
                    /\ kmdecGetDuration(dec) = 0
                    /\ ret.op = "decode" => (ret.rc = 0 /\ ret.eos)

\* C21: after every call of the scheduler, in seek or play mode, and after
\* reset, every track has nextTick >= tick or nextTick = END_OF_TRACK: the
\* tick never passes a pending event.
C21_TickNotPastEvent ==
    pc = "ready" =>
        \A i \in 1..Len(dec.tracks) :
            \/ dec.tracks[i].nextTick >= dec.tick
            \/ dec.tracks[i].nextTick = END_OF_TRACK

\* C21, witness: a decode left the tick, after clock steps, on the tick of
\* a pending event
C21_Witness ==
    /\ pc = "ready" /\ ret.op = "decode" /\ dec.tick > 0
    /\ \E i \in 1..Len(dec.tracks) :
          /\ dec.tracks[i].nextTick = dec.tick
          /\ dec.tracks[i].offset < dec.tracks[i].length
    /\ Len(TraceOf(dec, "step")) > 1

\* C22: for every track of every file that open accepts, offset <= length
\* in every reachable state, also when the end of the chunk cuts the last
\* event of the track.
C22_OffsetWithinLength ==
    pc = "ready" =>
        \A i \in 1..Len(dec.tracks) :
            dec.tracks[i].offset <= dec.tracks[i].length

\* C23: whenever a call of the scheduler selects a track (nextTick <= tick)
\* whose offset equals its length, the call sets nextTick of the track to
\* END_OF_TRACK and decodes nothing from it.
C23_EndOfTrackDetected ==
    [][\A i \in 1..Len(dec.tracks) :
          (/\ pc = "scan"
           /\ dec.tracks[i].nextTick <= dec.tick
           /\ dec.tracks[i].offset = dec.tracks[i].length)
          => /\ dec'.tracks[i].nextTick = END_OF_TRACK
             /\ dec'.tracks[i].offset = dec.tracks[i].offset
             /\ dec'.synth = dec.synth]_vars

\* C24: in one call of the scheduler that succeeds, each track with
\* nextTick <= tick decodes exactly one event, and after it the track has
\* nextTick > tick (the tick at which it was selected) or nextTick =
\* END_OF_TRACK, also when a delta time of 0 follows the event.
C24_OneEventThenLater ==
    [][\A i \in 1..Len(dec.tracks) :
          (/\ pc = "scan" /\ ret'.rc = 0
           /\ dec.tracks[i].nextTick <= dec.tick)
          => /\ dec'.tracks[i].offset > dec.tracks[i].offset
             /\ \/ dec'.tracks[i].nextTick > dec.tick
                \/ dec'.tracks[i].nextTick = END_OF_TRACK]_vars

\* the frames of m microseconds, rounded up (the sample rates of the model
\* are multiples of 100)
FramesOf(d, m) == CeilDiv((d.sampleRate \div 100) * m, CLOCK_BASE \div 100)

\* C25 as claimed: every call of the scheduler advances the clock by at
\* most the clock unit, and in play mode renders at most the frames of one
\* clock unit, also when the step of 0 ticks is forced to 1.
C25_StepWithinClockUnit ==
    pc = "scan" =>
        \A mode \in {DECODE_SEEK, DECODE_PLAY}, g \in UninitBytes :
            LET r == decode(dec, mode, g) IN
            r.rc = 0 =>
                /\ r.d.clock - dec.clock <= dec.clockUnit
                /\ mode = DECODE_PLAY =>
                      r.d.bufLen <= FramesOf(dec, dec.clockUnit) * dec.sampleSize

\* C25, amended: every call of the scheduler advances the clock by at most
\* the longer of the clock unit and a step of one tick at the tempo in
\* force, and in play mode renders at most the frames of that time; a
\* call in seek mode renders nothing.
C25_StepWithinUnitOrTick ==
    pc = "scan" =>
        \A mode \in {DECODE_SEEK, DECODE_PLAY}, g \in UninitBytes :
            LET r == decode(dec, mode, g)
                m == Max(dec.clockUnit, TickMicros(r.d))
            IN
            r.rc = 0 =>
                /\ r.d.clock - dec.clock <= m
                /\ r.d.clock >= dec.clock
                /\ r.d.bufLen <= FramesOf(dec, m) * dec.sampleSize
                /\ mode = DECODE_SEEK => r.d.bufLen = dec.bufLen

\* C25, witness: the scheduler has taken a step of one tick that is longer
\* than the clock unit, the step of 0 ticks forced to 1
C25_Witness ==
    /\ pc = "scan" /\ file = "div24" /\ dec.tick = 1
    /\ dec.clock > dec.clockUnit
    /\ dec.trace[Len(dec.trace)] = <<"step", 0, 1, DEFAULT_TEMPO>>

\* C26: at a constant tempo (every tempo event so far came at tick 0),
\* whenever the tick is T the clock differs from T * tempo / division
\* microseconds by less than one clock unit.  Both sides are multiplied by
\* the division.
C26_NoDrift ==
    (/\ pc \in {"scan", "scanned"}
     /\ \A k \in 1..Len(dec.trace) :
           dec.trace[k][1] = "tempo" => dec.trace[k][3] = 0)
    => Abs(dec.clock * dec.header.division - dec.tick * dec.tempo)
         < dec.clockUnit * dec.header.division

\* C27: every division the decoder performs has a divisor that is not 0,
\* for every file that open accepts: no call ends in the signal that a
\* build raises at a division by zero.
C27_NoDivisionByZero == pc # "trap"

\* the decoder without what belongs to the audio: the staging buffer and
\* the render calls of the synthesizer
NoAudio(d) ==
    [d EXCEPT !.bufLen = 0, !.bufPos = 0, !.bufSize = 0, !.bufId = 0,
              !.synth = SelectSeq(@, LAMBDA c : c[1] # "write")]

C29_SeekEmptiesBuffer ==
    [][(/\ pc = "ready" /\ pc' = "ready"
        /\ ret'.op = "seek" /\ ret'.rc = 0
        /\ kmdecGetPosition(dec') # kmdecGetPosition(dec))
       => dec'.bufLen = 0]_vars

\* the byte at the position of track i, where its next event starts
PendingByte(d, i) == d.mfd.buffer[d.tracks[i].start + d.tracks[i].offset + 1]

\* C30: once an event with a status byte >= 0xF0 was decoded on a track, a
\* data byte (< 0x80) in status position right after it makes the decode of
\* the track fail: the earlier channel status is not reused.
C30_RunningStatusReset ==
    [][\A i \in 1..Len(dec.tracks) :
          (/\ pc = "scan" /\ pc' = "scan"
           /\ dec.tracks[i].offset < dec.tracks[i].length
           /\ PendingByte(dec, i) >= 240
           /\ dec'.tracks[i].offset > dec.tracks[i].offset
           /\ dec'.tracks[i].offset < dec'.tracks[i].length
           /\ PendingByte(dec', i) < 128)
          => \A g \in UninitBytes : decodeEvent(dec', i, g).rc = -1]_vars

\* C31: a track's nextTick never decreases: it grows by the delta time that
\* is decoded, without wrapping around the range of its word and without
\* reaching END_OF_TRACK by accumulation, or it becomes END_OF_TRACK at the
\* end of the track.
C31_NextTickGrows ==
    (pc = "deltaDone" /\ ret.rc = 0) =>
        /\ dec.tracks[1].nextTick >= ret.a1
        /\ dec.tracks[1].nextTick = END_OF_TRACK => ret.a2 = -1

\* C32: the decoding of a SysEx of the dialect ends on every input: with no
\* F7 within the 9 bytes, the loop that skips to F7 stops when it reads an
\* F7 or when the data of the track is exhausted; it never runs forever.
C32_SysExTerminates == pc # "hang"

====
